---- MODULE Spec2Model ----
(***************************************************************************)
(* Signal lifecycle, alert rule engine, scheduler, market scanner and     *)
(* Oracle engines of eluxraj-backend.                                      *)
(*                                                                         *)
(* Time is counted in minutes since the process started.  The database is  *)
(* the committed state (rules, history, signals); every coroutine that     *)
(* evaluates rules has its own SQLAlchemy session, modelled by its         *)
(* identity map (cache).  A coroutine only gives up the event loop at an   *)
(* await that really suspends (an HTTP call), so one action is the code    *)
(* between two such awaits.                                                *)
(***************************************************************************)
EXTENDS Integers, Sequences, FiniteSets, TLC

VARIABLES now, rules, history, last_value, eval, signals, scan, oracle,
          tasks, pending, wake_at, started, auth, whale_cache

alertVars == <<rules, history, last_value, eval>>
signalVars == <<signals, scan, oracle>>
schedVars == <<tasks, pending, wake_at, started>>
serviceVars == <<auth, whale_cache>>
vars == <<now, rules, history, last_value, eval, signals, scan, oracle,
          tasks, pending, wake_at, started, auth, whale_cache>>

----------------------------------------------------------------------------
(* Bounds of the model *)

MaxTime == 61
MaxHistory == 2

TickSteps == {30, 31}
RuleIds == {1}
Evals == {"a", "b"}
Values == {65, 75}
Cooldowns == {0, 60}
Conditions == {"above", "below", "crosses_above", "crosses_below"}

Thresholds == {70}

(* NULL in a DateTime column, and a value that was not given *)
NoTime == -1
NoValue == -1

----------------------------------------------------------------------------
(* AlertRule rows *)

(* The row create_alert_rule inserts: the column defaults for the state. *)
NewRule(cond, thr, cool, hook) ==
    [condition |-> cond, threshold |-> thr, is_active |-> TRUE,
     last_triggered |-> NoTime, trigger_count |-> 0, cooldown_minutes |-> cool,
     notify_email |-> TRUE, notify_push |-> TRUE, webhook_url |-> hook]

(* The session of a coroutine: rule id -> <<row as loaded>> or <<>> when the
   row is not in the identity map or is expired. *)
EmptyCache == [r \in RuleIds |-> <<>>]

(* A coroutine that is not running; error is the exception its caller logged
   when its last evaluation of the rules was left by one. *)
IdleEval == [pc |-> "idle", kind |-> "none", cache |-> EmptyCache, now |-> NoTime,
             value |-> NoValue, todo |-> <<>>, alert |-> 0, sent |-> {},
             error |-> "none"]

(* rule.<attribute> read through the session: the loaded row when there is
   one, the committed row otherwise. *)
View(cache, rs, r) == IF cache[r] # <<>> THEN cache[r][1] ELSE rs[r]

(* db.query(AlertRule)...all(): rows already in the identity map keep their
   loaded attributes, the others are loaded from the database. *)
Loaded(cache, rs, ids) ==
    [r \in RuleIds |-> IF r \in ids /\ cache[r] = <<>> THEN <<rs[r]>> ELSE cache[r]]

(* A datetime object: the minute it denotes and whether it has a tzinfo. *)
Aware(t) == [at |-> t, tzinfo |-> TRUE]
Naive(t) == [at |-> t, tzinfo |-> FALSE]

(* datetime.now(timezone.utc) *)
UtcNow(t) == Aware(t)

(* last_triggered = Column(DateTime): the column has no time zone.  A datetime
   written to it loses its tzinfo, and the value read back has none. *)
ToColumn(dt) == dt.at
FromColumn(t) == Naive(t)

(* datetime + timedelta(minutes=m) keeps the tzinfo of the datetime. *)
PlusMinutes(dt, m) == [dt EXCEPT !.at = @ + m]

(* a < b on datetimes: comparing an aware with a naive one raises TypeError. *)
Before(a, b) ==
    IF a.tzinfo # b.tzinfo THEN "TypeError"
    ELSE IF a.at < b.at THEN "true" ELSE "false"

(* The cooldown check of check_and_trigger_alerts on a rule as the session
   holds it (every row of a session was read from the database: commit
   expires the objects it wrote): "continue" when the rule is skipped, "pass"
   when the condition is looked at, "TypeError" when the comparison raises. *)
CooldownCheck(rule, now_) ==
    IF rule.last_triggered = NoTime THEN "pass"
    ELSE LET cooldown_end == PlusMinutes(FromColumn(rule.last_triggered),
                                         rule.cooldown_minutes)
             lt == Before(now_, cooldown_end)
         IN IF lt = "TypeError" THEN "TypeError"
            ELSE IF lt = "true" THEN "continue" ELSE "pass"

ConditionMet(rule, v) ==
    \/ rule.condition = "above" /\ v > rule.threshold
    \/ rule.condition = "below" /\ v < rule.threshold
    \/ rule.condition = "crosses_above" /\ v > rule.threshold
    \/ rule.condition = "crosses_below" /\ v < rule.threshold

Channels(rule) ==
    (IF rule.notify_email THEN {"email"} ELSE {})
        \cup (IF rule.notify_push THEN {"push"} ELSE {})
        \cup (IF rule.webhook_url THEN {"webhook"} ELSE {})

(* send_notification up to the webhook post: the channels logged as sent. *)
SentBeforeWebhook(channels) == channels \cap {"email", "push"}

(* send_notification's last lines: the row is updated and committed. *)
Notified(hist, i, sent) ==
    [hist EXCEPT ![i].notification_sent = (sent # {}),
                 ![i].notification_channels = sent]

SeqOfSet(S) ==
    LET RECURSIVE Build(_)
        Build(T) == IF T = {} THEN <<>>
                    ELSE LET m == CHOOSE x \in T : \A y \in T : x <= y
                         IN <<m>> \o Build(T \ {m})
    IN Build(S)

(* The for loop of check_and_trigger_alerts from the rule at the head of todo
   up to the next await that suspends (the webhook post), to its end, or to
   the exception that leaves it (both callers catch and log it).  now_ is the
   local `now`, clock the wall clock (AlertHistory.triggered_at defaults to
   the time of the insert). *)
RECURSIVE RuleLoop(_, _, _, _, _, _, _, _)
RuleLoop(todo, cache, rs, hist, lv, now_, value, clock) ==
    IF todo = <<>>
    THEN [rules |-> rs, history |-> hist, last_value |-> lv,
          cache |-> cache, pc |-> "idle", todo |-> <<>>, alert |-> 0, sent |-> {},
          error |-> "none"]
    ELSE
      LET r == Head(todo)
          rule == View(cache, rs, r)
          seen == [lv EXCEPT ![r] = value]
          cache1 == [cache EXCEPT ![r] = <<rule>>]
          cooldown == CooldownCheck(rule, UtcNow(now_))
      IN IF cooldown = "TypeError"
         THEN [rules |-> rs, history |-> hist, last_value |-> lv,
               cache |-> cache1, pc |-> "idle", todo |-> <<>>, alert |-> 0,
               sent |-> {}, error |-> "TypeError"]
         ELSE IF cooldown = "continue"
         THEN RuleLoop(Tail(todo), cache1, rs, hist, lv, now_, value, clock)
         ELSE IF ~ConditionMet(rule, value)
         THEN RuleLoop(Tail(todo), cache1, rs, hist, seen, now_, value, clock)
         ELSE
           LET alert == [rule_id |-> r, trigger_value |-> value,
                         threshold |-> rule.threshold, triggered_at |-> clock,
                         notification_sent |-> FALSE, notification_channels |-> {},
                         test |-> FALSE]
               rs1 == [rs EXCEPT ![r].last_triggered = ToColumn(UtcNow(now_)),
                                 ![r].trigger_count = rule.trigger_count + 1]
               hist1 == Append(hist, alert)
               channels == Channels(rs1[r])
               sent == SentBeforeWebhook(channels)
           IN IF "webhook" \in channels
              THEN [rules |-> rs1, history |-> hist1,
                    last_value |-> seen,
                    cache |-> [EmptyCache EXCEPT ![r] = <<rs1[r]>>],
                    pc |-> "notify", todo |-> Tail(todo),
                    alert |-> Len(hist1), sent |-> sent, error |-> "none"]
              ELSE RuleLoop(Tail(todo), EmptyCache, rs1,
                            Notified(hist1, Len(hist1), sent), seen,
                            now_, value, clock)

(* The state after a run of RuleLoop, for coroutine e. *)
Continue(e, res, now_, value) ==
    /\ Len(res.history) <= MaxHistory
    /\ rules' = res.rules
    /\ history' = res.history
    /\ last_value' = res.last_value
    /\ eval' = [eval EXCEPT ![e] =
                  IF res.pc = "idle" THEN [IdleEval EXCEPT !.error = res.error]
                  ELSE [@ EXCEPT !.pc = res.pc, !.cache = res.cache, !.now = now_,
                                 !.value = value, !.todo = res.todo,
                                 !.alert = res.alert, !.sent = res.sent]]

----------------------------------------------------------------------------
(* Operations of the alert engine *)

(* hourly_portfolio_scan up to its first await oracle.generate_signal: all
   active rules are loaded into the task's session. *)
HourlyScanStart(e) ==
    /\ eval[e].pc = "idle"
    /\ LET active == {r \in RuleIds : rules[r].is_active}
       IN eval' = [eval EXCEPT ![e] =
                     IF active = {} THEN IdleEval
                     ELSE [IdleEval EXCEPT !.pc = "fetch", !.kind = "hourly",
                                           !.cache = Loaded(EmptyCache, rules, active)]]
    /\ UNCHANGED <<now, rules, history, last_value, signalVars, schedVars, serviceVars>>

(* POST /scan up to its first await oracle.generate_signal. *)
ScanPortfolioStart(e) ==
    /\ eval[e].pc = "idle"
    /\ eval' = [eval EXCEPT ![e] = [IdleEval EXCEPT !.pc = "fetch", !.kind = "scan"]]
    /\ UNCHANGED <<now, rules, history, last_value, signalVars, schedVars, serviceVars>>

(* generate_signal returned nothing or raised: the asset is skipped. *)
FetchFailed(e) ==
    /\ eval[e].pc = "fetch"
    /\ eval' = [eval EXCEPT ![e] = IdleEval]
    /\ UNCHANGED <<now, rules, history, last_value, signalVars, schedVars, serviceVars>>

(* generate_signal returned a signal with oracle_score v:
   check_and_trigger_alerts(asset, "oracle_score", v, db). *)
CheckAndTrigger(e, v) ==
    /\ eval[e].pc = "fetch"
    /\ LET found == {r \in RuleIds : rules[r].is_active}
           cache == Loaded(eval[e].cache, rules, found)
       IN Continue(e, RuleLoop(SeqOfSet(found), cache, rules, history,
                               last_value, now, v, now), now, v)
    /\ UNCHANGED <<now, signalVars, schedVars, serviceVars>>

(* The webhook post of send_notification returned (ok) or raised: the alert
   row is updated and committed, and the caller goes on. *)
NotifyResume(e, ok) ==
    /\ eval[e].pc = "notify"
    /\ LET sent == eval[e].sent \cup (IF ok THEN {"webhook"} ELSE {})
           hist == Notified(history, eval[e].alert, sent)
       IN Continue(e, RuleLoop(eval[e].todo, EmptyCache, rules, hist,
                               last_value, eval[e].now, eval[e].value, now),
                   eval[e].now, eval[e].value)
    /\ UNCHANGED <<now, signalVars, schedVars, serviceVars>>

(* POST /test/{rule_id} *)
test_alert_rule(e, r) ==
    /\ eval[e].pc = "idle"
    /\ Len(history) < MaxHistory
    /\ LET rule == rules[r]
           alert == [rule_id |-> r, trigger_value |-> rule.threshold,
                     threshold |-> rule.threshold, triggered_at |-> now,
                     notification_sent |-> FALSE, notification_channels |-> {},
                     test |-> TRUE]
           hist1 == Append(history, alert)
           channels == Channels(rule)
           sent == SentBeforeWebhook(channels)
       IN IF "webhook" \in channels
          THEN /\ history' = hist1
               /\ eval' = [eval EXCEPT ![e] =
                             [IdleEval EXCEPT !.pc = "notify", !.kind = "test",
                                 !.cache = [EmptyCache EXCEPT ![r] = <<rule>>],
                                 !.alert = Len(hist1), !.sent = sent]]
          ELSE /\ history' = Notified(hist1, Len(hist1), sent)
               /\ eval' = eval
    /\ UNCHANGED <<now, rules, last_value, signalVars, schedVars, serviceVars>>

(* PATCH /rules/{rule_id}: u is the AlertRuleUpdate, a field of NoValue (or
   "none" for a flag) being one that was not sent. *)
Patched(rule, u) ==
    [rule EXCEPT
       !.threshold = IF u.threshold # NoValue THEN u.threshold ELSE @,
       !.is_active = IF u.is_active # "none" THEN u.is_active = "true" ELSE @,
       !.notify_email = IF u.notify_email # "none" THEN u.notify_email = "true" ELSE @,
       !.notify_push = IF u.notify_push # "none" THEN u.notify_push = "true" ELSE @,
       !.cooldown_minutes = IF u.cooldown_minutes # NoValue THEN u.cooldown_minutes ELSE @]

update_alert_rule(r, u) ==
    /\ rules' = [rules EXCEPT ![r] = Patched(rules[r], u)]
    /\ UNCHANGED <<now, history, last_value, eval, signalVars, schedVars, serviceVars>>

NoUpdate == [threshold |-> NoValue, is_active |-> "none", notify_email |-> "none",
             notify_push |-> "none", cooldown_minutes |-> NoValue]

Updates ==
    {[NoUpdate EXCEPT !.is_active = a] : a \in {"true", "false"}}
        \cup {[NoUpdate EXCEPT !.cooldown_minutes = c] : c \in Cooldowns}

(* Time passes.  The awaits of a scan are HTTP calls bounded by the client's
   timeouts (10 s for the webhook), far below one step of the clock, so no
   coroutine is suspended across a step. *)
Tick(d) ==
    /\ \A e \in Evals : eval[e].pc = "idle"
    /\ pending = {}
    /\ now + d <= MaxTime
    /\ now' = now + d
    /\ UNCHANGED <<alertVars, signalVars, schedVars, serviceVars>>

----------------------------------------------------------------------------
(* Signal rows and the admin operations on them *)

SignalIds == {1}
BuyTypes == {"strong_buy", "buy", "lean_buy"}
SellTypes == {"strong_sell", "sell", "lean_sell"}
SignalTypes == BuyTypes \cup SellTypes \cup {"hold"}
Terminal == {"hit_target", "hit_stop", "expired", "cancelled"}
Expiries == {0, 31}

(* NULL in a Float column; a PnL is the fraction <<numerator, denominator>>,
   so that the division of the code is exact. *)
NoPrice == -1
NoPnl == <<>>
OutcomePrices == {NoPrice, 0, 90, 110}

(* A Signal as scan_and_save persists it: status active, no outcome. *)
NewSignal(type, entry, target, stop, exp) ==
    [signal_type |-> type, entry_price |-> entry, target_price |-> target,
     stop_loss |-> stop, expires_at |-> exp, status |-> "active",
     outcome_price |-> NoPrice, outcome_pnl_percent |-> NoPnl, outcome_at |-> NoTime]

StoredSignals ==
    {NewSignal(t, 100, 110, 97, x) : t \in BuyTypes, x \in Expiries}
        \cup {NewSignal(t, 100, 90, 103, x) : t \in SellTypes, x \in Expiries}
        \cup {NewSignal("hold", 100, 103, 97, x) : x \in Expiries}

valid_statuses == {"active"} \cup Terminal

(* The P&L of update_signal_status, in percent. *)
PnlPercent(type, entry, price) ==
    IF type = "buy" THEN <<(price - entry) * 100, entry>>
    ELSE <<(entry - price) * 100, entry>>

(* `if outcome_price:` is false for None and for 0. *)
Truthy(price) == price # NoPrice /\ price # 0

StatusUpdated(sig, status, price) ==
    LET s1 == [sig EXCEPT !.status = status, !.outcome_at = now]
    IN IF Truthy(price)
       THEN [s1 EXCEPT !.outcome_price = price,
                       !.outcome_pnl_percent =
                           PnlPercent(sig.signal_type, sig.entry_price, price)]
       ELSE s1

(* PATCH /signals/{signal_id}/status *)
update_signal_status(id, status, price) ==
    /\ status \in valid_statuses
    /\ signals' = [signals EXCEPT ![id] = StatusUpdated(signals[id], status, price)]
    /\ UNCHANGED <<now, alertVars, scan, oracle, schedVars, serviceVars>>

(* POST /system/cleanup: app.services.scheduler defines no
   cleanup_expired_signals, so the import raises and nothing is swept. *)
trigger_cleanup ==
    UNCHANGED vars

----------------------------------------------------------------------------
(* The scheduler *)

TaskNames == {"hourly_scan", "whale_check"}
MaxStarts == 3
HourlyInterval == 3600
WhaleInterval == 300
PollSeconds == 60

(* setup_scheduler: the tasks add_task registers, each with its interval. *)
Interval(name) == IF name = "hourly_scan" THEN HourlyInterval ELSE WhaleInterval

ShouldRun(task, name, t) ==
    \/ task.last_run = NoTime
    \/ (t - task.last_run) * 60 >= Interval(name)

(* One pass of the loop of Scheduler.start: a task is created for every
   registered task that is due, then the loop sleeps.  started is the record
   of the times at which a run of each task was created. *)
SchedulerLoop ==
    /\ now >= wake_at
    /\ pending' = pending \cup {n \in TaskNames : ShouldRun(tasks[n], n, now)}
    /\ wake_at' = now + PollSeconds \div 60
    /\ started' = [n \in TaskNames |->
                     IF ShouldRun(tasks[n], n, now) THEN Append(started[n], now)
                     ELSE started[n]]
    /\ \A n \in TaskNames : Len(started'[n]) <= MaxStarts
    /\ UNCHANGED <<now, alertVars, signalVars, tasks, serviceVars>>

(* Scheduler.run_task for a created task whose function does not suspend:
   whale_alert_check, and hourly_portfolio_scan when no rule is active.  ok is
   whether the function returned; last_run is only written when it did. *)
RunTask(name, ok) ==
    /\ name \in pending
    /\ name = "hourly_scan" => \A r \in RuleIds : ~rules[r].is_active
    /\ pending' = pending \ {name}
    /\ tasks' = IF ok THEN [tasks EXCEPT ![name].last_run = now] ELSE tasks
    /\ UNCHANGED <<now, alertVars, signalVars, wake_at, started, serviceVars>>

----------------------------------------------------------------------------
(* The market scanner *)

(* oracle.SUPPORTED_ASSETS, cut to its first NumAssets symbols. *)
NumAssets == 3
Assets == 1..NumAssets

MIN_SCORE_TO_SAVE == 55
ScanScores == {45, 46, 54, 55, 70}

(* The keys of the dict OracleEngine.generate_signal returns. *)
OracleKeys ==
    {"asset_type", "symbol", "pair", "signal_type", "oracle_score", "confidence",
     "entry_price", "target_price", "stop_loss", "target_pct", "stop_pct",
     "risk_reward_ratio", "factor_breakdown", "whale_alerts", "liquidation_zones",
     "funding_rate", "reasoning_summary", "reasoning_bullets", "model_version",
     "timeframe", "expires_at", "generated_at"}

(* The keys scan_and_save reads to build the Signal. *)
SignalKeys ==
    {"asset_type", "symbol", "pair", "signal_type", "oracle_score", "confidence",
     "entry_price", "target_price", "stop_loss", "risk_reward_ratio",
     "reasoning_summary", "reasoning_factors", "model_version", "input_snapshot",
     "data_sources", "timeframe", "expires_at"}

(* signal_data[k] raises KeyError for a key the dict does not have. *)
KeyError(keys) == SignalKeys \ keys # {}

(* The classification of OracleEngine.generate_signal. *)
ClassifyV2(score) ==
    IF score >= 70 THEN "strong_buy"
    ELSE IF score >= 60 THEN "buy"
    ELSE IF score <= 30 THEN "strong_sell"
    ELSE IF score <= 40 THEN "sell"
    ELSE "hold"

(* What the await of generate_signal gives for one asset: an exception, None,
   or a signal with an oracle_score. *)
FetchOutcomes ==
    {[kind |-> k, score |-> 0] : k \in {"raise", "none"}}
        \cup {[kind |-> "signal", score |-> x] : x \in ScanScores}

NotFetched == [kind |-> "pending", score |-> 0]

Actionable(score) ==
    score >= MIN_SCORE_TO_SAVE \/ score <= 100 - MIN_SCORE_TO_SAVE

IdleScan ==
    [pc |-> "idle", todo |-> <<>>, saved |-> <<>>, skipped |-> <<>>, errors |-> <<>>,
     session |-> {}, persisted |-> {},
     attempts |-> [a \in Assets |-> 0], outcome |-> [a \in Assets |-> NotFetched],
     caught |-> {}, result |-> <<>>]

(* `if not signal_data:` with its continue, taken twice: the entry is added
   and the body goes on to signal_data["oracle_score"], whose exception adds
   the asset again. *)
NoDataFallsThrough(sc, a) ==
    [sc EXCEPT !.errors = Append(Append(@, a), a)]

(* `if not signal_data:`: the asset is recorded as an error, and skipped. *)
NoData(sc, a) ==
    [sc EXCEPT !.errors = Append(@, a)]

(* `except Exception as e:`: the asset is recorded as an error. *)
Caught(sc, a) ==
    [sc EXCEPT !.errors = Append(@, a), !.caught = @ \cup {a}]

(* One pass of the body of the for loop, for asset a and what generate_signal
   gave for it.  The rows added to the session are those of the signals table
   (rows of this scan, which get fresh ids). *)
Iteration(sc, a, o) ==
    IF o.kind = "raise" THEN Caught(sc, a)
    ELSE IF o.kind = "none" THEN NoData(sc, a)
    ELSE IF Actionable(o.score)
    THEN IF KeyError(OracleKeys) THEN Caught(sc, a)
         ELSE [sc EXCEPT
                 !.session = @ \cup {[asset |-> a, oracle_score |-> o.score,
                                      signal_type |-> ClassifyV2(o.score),
                                      status |-> "active"]},
                 !.saved = Append(@, a)]
    ELSE [sc EXCEPT !.skipped = Append(@, a)]

(* The dict scan_and_save returns. *)
Summary(sc) ==
    [total_scanned |-> NumAssets, saved |-> Len(sc.saved),
     skipped |-> Len(sc.skipped), errors |-> Len(sc.errors)]

(* scan_and_save up to its first await oracle.generate_signal. *)
ScanStart ==
    /\ scan.pc # "fetch"
    /\ scan' = [IdleScan EXCEPT !.pc = "fetch",
                                !.todo = [i \in 1..NumAssets |-> i],
                                !.persisted = scan.persisted]
    /\ UNCHANGED <<now, alertVars, signals, oracle, schedVars, serviceVars>>

(* generate_signal is back for the asset at the head of todo: the body of the
   loop runs for it, and after the last asset db.commit() (which succeeds or
   raises out of scan_and_save) and the summary. *)
ScanStep(o, commit_ok) ==
    /\ scan.pc = "fetch"
    /\ LET a == Head(scan.todo)
           sc1 == [Iteration(scan, a, o) EXCEPT
                      !.todo = Tail(scan.todo),
                      !.attempts[a] = @ + 1,
                      !.outcome[a] = o]
       IN IF sc1.todo # <<>>
          THEN commit_ok /\ scan' = sc1
          ELSE IF commit_ok
          THEN scan' = [sc1 EXCEPT !.pc = "done",
                                   !.persisted = @ \cup sc1.session,
                                   !.session = {},
                                   !.result = Summary(sc1)]
          ELSE scan' = [sc1 EXCEPT !.pc = "aborted", !.session = {}]
    /\ UNCHANGED <<now, alertVars, signals, oracle, schedVars, serviceVars>>

InitScan == scan = IdleScan

----------------------------------------------------------------------------
(* The Oracle engines: from a score and a price to a signal *)

Engines == {"v2", "v3"}
Scores == 0..100

(* Current prices, in hundredths of a cent: 0.004, 0.10, 0.30, 2.50 and
   100.00 dollars.  PEPE and SHIB are supported assets of both engines. *)
Prices == {40, 1000, 3000, 25000, 1000000}

V3BuyTypes == {"buy", "strong_buy", "lean_buy"}
V3SellTypes == {"sell", "strong_sell", "lean_sell"}
V3Types == V3BuyTypes \cup V3SellTypes \cup {"hold"}

(* round(n / d): Python rounds to the nearest, a tie to the even neighbour. *)
RoundHalfEven(n, d) ==
    LET q == n \div d
        r == n % d
    IN IF 2 * r < d THEN q
       ELSE IF 2 * r > d THEN q + 1
       ELSE IF q % 2 = 0 THEN q ELSE q + 1

(* round(x, 2) of x = n / d hundredths of a cent, in cents. *)
Round2(n, d) == RoundHalfEven(n, d * 100)

(* The first test is the lean_buy test, so no score reaches buy or
   strong_buy. *)
ClassifyV3Shadowed(score) ==
    IF score >= 55 THEN "lean_buy"
    ELSE IF score >= 65 THEN "buy"
    ELSE IF score >= 75 THEN "strong_buy"
    ELSE IF score <= 25 THEN "strong_sell"
    ELSE IF score <= 35 THEN "sell"
    ELSE IF score <= 45 THEN "lean_sell"
    ELSE "hold"

(* OracleEngineV3._generate_signal_from_score: the signal type. *)
ClassifyV3(score) ==
    IF score >= 75 THEN "strong_buy"
    ELSE IF score >= 65 THEN "buy"
    ELSE IF score >= 55 THEN "lean_buy"
    ELSE IF score <= 25 THEN "strong_sell"
    ELSE IF score <= 35 THEN "sell"
    ELSE IF score <= 45 THEN "lean_sell"
    ELSE "hold"

(* target_pct, in tenths of a percent. *)
TargetPctV3(score) ==
    IF score >= 75 THEN 120
    ELSE IF score >= 65 THEN 80
    ELSE IF score >= 55 THEN 50
    ELSE IF score <= 25 THEN 120
    ELSE IF score <= 35 THEN 80
    ELSE IF score <= 45 THEN 50
    ELSE 30

TargetPctV2(score) ==
    IF score >= 70 THEN 80 + (score - 70) * 3
    ELSE IF score >= 60 THEN 50 + (score - 60) * 2
    ELSE IF score <= 30 THEN 80 + (30 - score) * 3
    ELSE IF score <= 40 THEN 50 + (40 - score) * 2
    ELSE 30

(* stop_pct, in tenths of a percent. *)
StopPct(engine) == IF engine = "v2" THEN 30 ELSE 40

Classify(engine, score) ==
    IF engine = "v2" THEN ClassifyV2(score) ELSE ClassifyV3(score)

TargetPct(engine, score) ==
    IF engine = "v2" THEN TargetPctV2(score) ELSE TargetPctV3(score)

(* The label that opens the summary of _generate_reasoning (v2). *)
SummaryLabelV2(score) ==
    IF score >= 70 THEN "STRONG BUY"
    ELSE IF score >= 60 THEN "BUY"
    ELSE IF score <= 30 THEN "STRONG SELL"
    ELSE IF score <= 40 THEN "SELL"
    ELSE "HOLD"

(* The label that opens the summary of _build_reasoning (v3). *)
SummaryLabelV3(score) ==
    IF score >= 70 THEN "STRONG BUY"
    ELSE IF score >= 55 THEN "BUY"
    ELSE IF score <= 30 THEN "STRONG SELL"
    ELSE IF score <= 45 THEN "SELL"
    ELSE "HOLD"

SummaryLabel(engine, score) ==
    IF engine = "v2" THEN SummaryLabelV2(score) ELSE SummaryLabelV3(score)

(* The price fields of the returned signal, in cents: target and stop are
   computed from the unrounded price, and each of the three is rounded to two
   decimals on its own. *)
SignalFromScore(engine, score, current_price) ==
    LET signal_type == Classify(engine, score)
        target_pct == TargetPct(engine, score)
        stop_pct == StopPct(engine)
        up(p) == Round2(current_price * (1000 + p), 1000)
        down(p) == Round2(current_price * (1000 - p), 1000)
    IN [signal_type |-> signal_type,
        oracle_score |-> score,
        summary |-> SummaryLabel(engine, score),
        entry_price |-> Round2(current_price, 1),
        target_price |-> IF signal_type \in V3BuyTypes THEN up(target_pct)
                         ELSE IF signal_type \in V3SellTypes THEN down(target_pct)
                         ELSE up(30),
        stop_loss |-> IF signal_type \in V3BuyTypes THEN down(stop_pct)
                      ELSE IF signal_type \in V3SellTypes THEN up(stop_pct)
                      ELSE down(30)]

NoSignal == [signal_type |-> "none"]

(* No generate_signal call in progress. *)
IdleOracle == [pc |-> "idle"]

InitOracle == oracle = IdleOracle

(* generate_signal from the Oracle Score on: classification, prices and the
   returned dict. *)
GenerateFromScore ==
    /\ oracle.pc = "scored"
    /\ oracle' = [oracle EXCEPT
                     !.pc = "signalled",
                     !.signal = SignalFromScore(oracle.engine, oracle.score,
                                                oracle.price)]
    /\ UNCHANGED <<now, alertVars, signals, scan, schedVars, serviceVars>>

----------------------------------------------------------------------------
(* The Oracle engines: from a market observation to the Oracle Score *)

(* fear_greed.get_current() returned None *)
NoIndex == -1

(* A market observation: the CoinGecko price data the providers and the
   factors read, and the Fear & Greed index.  change24 and change7 are
   price_change_24h and price_change_7d in percent, volume_ratio is
   volume_24h / market_cap in percent, range_pct the 24h range in percent
   (1 and 12 fall on the same side of every threshold whether the range is
   taken over the low or over the current price), votes_up the bullish
   votes in percent. *)
Observations ==
    [change24 : {-6, 0, 6}, change7 : {-11, 11}, volume_ratio : {2, 16},
     range_pct : {1, 12}, ath_change : {-5}, votes_up : {20, 90},
     fng : {NoIndex, 10, 90}]

(* What the quant models compute from the historical series: its length,
   the TSMOM signal_strength in hundredths, the RSI average gain and loss,
   the sign of the five-point price trend, and the regime that decides the
   table scores of the remaining models. *)
Regimes == {"bear", "flat", "bull"}
RsiInputs == {<<1, 9, -1>>, <<9, 1, -1>>, <<1, 1, 1>>}
Strengths == {-300, 10, 300}

(* A series of len prices and vol_len volumes.  kind tells the degenerate
   cases apart: a price of zero before the last point, a constant price,
   volumes that are all zero. *)
SeriesOf(n, v, kind, s, r, g) ==
    [len |-> n, vol_len |-> v, kind |-> kind, strength |-> s,
     avg_gain |-> r[1], avg_loss |-> r[2], price_trend |-> r[3], regime |-> g]

ShortSeries == SeriesOf(29, 29, "regular", 0, <<0, 0, 0>>, "flat")
Series ==
    {ShortSeries} \cup
    {SeriesOf(30, 30, "regular", s, r, g) :
        s \in Strengths, r \in RsiInputs, g \in Regimes}

Clamp(x) == IF x < 0 THEN 0 ELSE IF x > 100 THEN 100 ELSE x

(* 50 + signal_strength * 25, rounded but not clamped. *)
TsmomScoreUnclamped(strength) ==
    RoundHalfEven(5000 + 25 * strength, 100)

(* MomentumModels.tsmom_signal: the score, clamped and then rounded. *)
TsmomScore(strength) ==
    LET score == 5000 + 25 * strength
        clamped == IF score < 0 THEN 0 ELSE IF score > 10000 THEN 10000 ELSE score
    IN RoundHalfEven(clamped, 100)

(* MomentumModels.rsi_divergence: the score.  rsi is rsin / den. *)
RsiScore(avg_gain, avg_loss, price_trend) ==
    LET den == IF avg_loss = 0 THEN 1 ELSE avg_gain + avg_loss
        rsin == IF avg_loss = 0 THEN 100 ELSE 100 * avg_gain
        divergence == IF price_trend < 0 /\ rsin > 30 * den THEN "bullish"
                      ELSE IF price_trend > 0 /\ rsin < 70 * den THEN "bearish"
                      ELSE "none"
        base == IF rsin < 30 * den THEN 70 * den + (30 * den - rsin)
                ELSE IF rsin > 70 * den THEN 30 * den - (rsin - 70 * den)
                ELSE 50 * den
        score == IF divergence = "bullish" THEN base + 10 * den
                 ELSE IF divergence = "bearish" THEN base - 10 * den
                 ELSE base
    IN Clamp(RoundHalfEven(score, den))

(* The models whose score is one of a few fixed values: the lowest, the
   neutral and the highest value of each. *)
TableScores(regime) ==
    IF regime = "bear"
    THEN [bollinger |-> 20, ou_process |-> 40, var |-> 30, sharpe |-> 35,
          sortino |-> 35, dma |-> 25, adx |-> 30, vwap |-> 30, obv |-> 25]
    ELSE IF regime = "bull"
    THEN [bollinger |-> 80, ou_process |-> 70, var |-> 70, sharpe |-> 85,
          sortino |-> 85, dma |-> 75, adx |-> 70, vwap |-> 70, obv |-> 75]
    ELSE [bollinger |-> 50, ou_process |-> 50, var |-> 50, sharpe |-> 50,
          sortino |-> 50, dma |-> 50, adx |-> 50, vwap |-> 50, obv |-> 50]

(* model_weights of run_all_models, in percent. *)
model_weights ==
    [tsmom |-> 15, rsi |-> 8, bollinger |-> 10, ou_process |-> 5, var |-> 8,
     sharpe |-> 10, sortino |-> 8, dma |-> 12, adx |-> 8, vwap |-> 8, obv |-> 8]

RECURSIVE WeightedSum(_, _, _)
WeightedSum(scores, weights, names) ==
    IF names = {} THEN 0
    ELSE LET n == CHOOSE x \in names : TRUE
         IN scores[n] * weights[n] + WeightedSum(scores, weights, names \ {n})

RECURSIVE SumOf(_, _)
SumOf(f, names) ==
    IF names = {} THEN 0
    ELSE LET n == CHOOSE x \in names : TRUE
         IN f[n] + SumOf(f, names \ {n})

(* int(total_score / total_weight) if total_weight > 0 else 50 *)
WeightedMean(scores, weights, names) ==
    IF SumOf(weights, names) > 0
    THEN WeightedSum(scores, weights, names) \div SumOf(weights, names)
    ELSE 50

(* The length below which each model returns its neutral result. *)
MinLength ==
    [tsmom |-> 13, rsi |-> 19, bollinger |-> 20, ou_process |-> 30,
     var |-> 30, sharpe |-> 30, sortino |-> 30, dma |-> 30, adx |-> 15,
     vwap |-> 10, obv |-> 20]

(* The models that also test len(volumes). *)
VolumeModelNames == {"vwap", "obv"}

TooShort(m, series) ==
    \/ series.len < MinLength[m]
    \/ m \in VolumeModelNames /\ series.vol_len < MinLength[m]

(* The signal of the early return of each model: tsmom returns signal 0,
   bollinger, dma and obv return neutral, the others no signal at all. *)
ShortSignal ==
    [tsmom |-> "0", rsi |-> "absent", bollinger |-> "neutral",
     ou_process |-> "absent", var |-> "absent", sharpe |-> "absent",
     sortino |-> "absent", dma |-> "neutral", adx |-> "absent",
     vwap |-> "absent", obv |-> "neutral"]

(* The models that divide by every price but the last to get returns. *)
DividesByPrice == {"tsmom", "var", "sharpe", "sortino"}

(* The table models on a constant price: no return, no variance, no
   deviation from any average (in exact arithmetic). *)
ConstantScores ==
    [bollinger |-> 50, ou_process |-> 50, var |-> 70, sharpe |-> 35,
     sortino |-> 35, dma |-> 50, adx |-> 50, vwap |-> 50, obv |-> 50]

(* A call that raised has no score. *)
NoScore == -1

(* No early return: every model computes on whatever the series holds. *)
ModelResultUnguarded(m, series) ==
    IF series.kind = "zero_price" /\ m \in DividesByPrice /\ series.len >= 2
    THEN [raised |-> TRUE, score |-> NoScore, signal |-> "none"]
    ELSE [raised |-> FALSE,
          score |-> IF m = "tsmom" THEN TsmomScore(series.strength)
                    ELSE IF m = "rsi"
                    THEN RsiScore(series.avg_gain, series.avg_loss,
                                  series.price_trend)
                    ELSE TableScores(series.regime)[m],
          signal |-> "computed"]

(* One quant model called on the series. *)
ModelResult(m, series) ==
    IF TooShort(m, series)
    THEN [raised |-> FALSE, score |-> 50, signal |-> ShortSignal[m]]
    ELSE IF series.kind = "zero_price" /\ m \in DividesByPrice
    THEN [raised |-> TRUE, score |-> NoScore, signal |-> "none"]
    ELSE LET score ==
                 IF m = "tsmom" THEN TsmomScore(series.strength)
                 ELSE IF m = "rsi"
                 THEN RsiScore(series.avg_gain, series.avg_loss,
                               series.price_trend)
                 ELSE IF series.kind = "constant" THEN ConstantScores[m]
                 ELSE IF series.kind = "zero_volume" /\ m \in VolumeModelNames
                 THEN 50
                 ELSE TableScores(series.regime)[m]
         IN [raised |-> FALSE, score |-> score, signal |-> "computed"]

(* run_all_models: the signal of the aggregate. *)
QuantSignal(aggregate_score) ==
    IF aggregate_score >= 70 THEN "STRONG BUY"
    ELSE IF aggregate_score >= 60 THEN "BUY"
    ELSE IF aggregate_score <= 30 THEN "STRONG SELL"
    ELSE IF aggregate_score <= 40 THEN "SELL"
    ELSE "HOLD"

(* QuantOracle.run_all_models: the score of every model and the aggregate;
   an exception of a model leaves run_all_models. *)
run_all_models(series) ==
    LET each == [m \in DOMAIN model_weights |-> ModelResult(m, series)]
        results == [m \in DOMAIN model_weights |-> each[m].score]
        raised == \E m \in DOMAIN model_weights : each[m].raised
        aggregate_score == WeightedMean(results, model_weights, DOMAIN model_weights)
    IN IF raised
       THEN [raised |-> TRUE, each |-> each, models |-> results,
             quant_score |-> NoScore, signal |-> "none"]
       ELSE [raised |-> FALSE, each |-> each, models |-> results,
             quant_score |-> aggregate_score,
             signal |-> QuantSignal(aggregate_score)]

(* One call of every model and of run_all_models on the same series. *)
RunModels ==
    /\ oracle.pc = "series"
    /\ oracle' = [oracle EXCEPT !.pc = "ran",
                                !.result = run_all_models(oracle.series)]
    /\ UNCHANGED <<now, alertVars, signals, scan, schedVars, serviceVars>>

(* The whale score follows the clock. *)
WhaleActivityByClock(obs, t) ==
    [score |-> IF t = 0 THEN 85 ELSE 50, last_updated |-> t]

(* WhaleAlertProvider.get_whale_activity *)
WhaleActivity(obs, t) ==
    [score |-> IF obs.volume_ratio > 15 /\ obs.change24 > 2 THEN 85
               ELSE IF obs.volume_ratio > 15 /\ obs.change24 < -2 THEN 25
               ELSE IF obs.volume_ratio > 8 /\ obs.change24 > 1 THEN 70
               ELSE IF obs.volume_ratio > 8 /\ obs.change24 < -1 THEN 35
               ELSE 50,
     last_updated |-> t]

(* LiquidationProvider.get_liquidation_data: risk_score *)
LiquidationScore(obs) ==
    IF obs.range_pct > 10 THEN 85
    ELSE IF obs.range_pct > 7 THEN 70
    ELSE IF obs.range_pct > 4 THEN 50
    ELSE 30

(* FundingRateProvider.get_funding_data: score *)
FundingScore(obs) ==
    IF obs.change24 > 5 THEN 30
    ELSE IF obs.change24 > 2 THEN 45
    ELSE IF obs.change24 > -2 THEN 60
    ELSE IF obs.change24 > -5 THEN 70
    ELSE 80

(* ExchangeFlowProvider.get_exchange_flow: score *)
ExchangeFlowScore(obs) ==
    IF obs.volume_ratio > 10 /\ obs.change24 < -3 THEN 25
    ELSE IF obs.volume_ratio > 10 /\ obs.change24 > 3 THEN 80
    ELSE IF obs.volume_ratio > 5 /\ obs.change24 < 0 THEN 40
    ELSE IF obs.volume_ratio > 5 /\ obs.change24 > 0 THEN 65
    ELSE 50

(* OpenInterestProvider.get_open_interest: score *)
OpenInterestScore(obs) ==
    IF obs.volume_ratio > 8 /\ obs.change24 > 2 THEN 70
    ELSE IF obs.volume_ratio > 8 /\ obs.change24 < -2 THEN 35
    ELSE 50

(* SocialSentimentProvider.get_social_sentiment: score *)
SocialScore(obs) ==
    LET sentiment_up == obs.votes_up
        sentiment_down == 100 - obs.votes_up
        sentiment_score == (100 * sentiment_up) \div (sentiment_up + sentiment_down)
    IN IF sentiment_score >= 80 THEN 40
       ELSE IF sentiment_score >= 65 THEN 55
       ELSE IF sentiment_score >= 45 THEN 50
       ELSE IF sentiment_score >= 30 THEN 60
       ELSE 75

(* FACTOR_WEIGHTS of OracleEngine, in percent. *)
FACTOR_WEIGHTS ==
    [momentum_24h |-> 10, trend_7d |-> 12, volume_flow |-> 8,
     ath_proximity |-> 5, market_sentiment |-> 12, volatility |-> 8,
     whale_activity |-> 15, liquidation_risk |-> 8, funding_rate |-> 8,
     exchange_flow |-> 7, open_interest |-> 5, social_sentiment |-> 2]

(* OracleEngine._calculate_factors: the score of every factor. *)
FactorsV2(obs, t) ==
    [momentum_24h |-> IF obs.change24 > 5 THEN 80
                      ELSE IF obs.change24 > 2 THEN 65
                      ELSE IF obs.change24 > -2 THEN 50
                      ELSE IF obs.change24 > -5 THEN 35
                      ELSE 20,
     trend_7d |-> IF obs.change7 > 10 THEN 85
                  ELSE IF obs.change7 > 3 THEN 65
                  ELSE IF obs.change7 > -3 THEN 50
                  ELSE IF obs.change7 > -10 THEN 35
                  ELSE 15,
     volume_flow |-> IF obs.volume_ratio > 15 THEN 75
                     ELSE IF obs.volume_ratio > 8 THEN 65
                     ELSE IF obs.volume_ratio > 3 THEN 50
                     ELSE 35,
     ath_proximity |-> IF obs.ath_change > -10 THEN 40
                       ELSE IF obs.ath_change > -30 THEN 60
                       ELSE IF obs.ath_change > -50 THEN 70
                       ELSE 80,
     volatility |-> IF obs.range_pct > 10 THEN 30
                    ELSE IF obs.range_pct > 5 THEN 45
                    ELSE IF obs.range_pct > 2 THEN 60
                    ELSE 70,
     market_sentiment |-> IF obs.fng = NoIndex THEN 50
                          ELSE IF obs.fng < 25 THEN 80
                          ELSE IF obs.fng < 40 THEN 65
                          ELSE IF obs.fng < 60 THEN 50
                          ELSE IF obs.fng < 75 THEN 40
                          ELSE 25,
     whale_activity |-> WhaleActivity(obs, t).score,
     liquidation_risk |-> 100 - LiquidationScore(obs),
     funding_rate |-> FundingScore(obs),
     exchange_flow |-> ExchangeFlowScore(obs),
     open_interest |-> OpenInterestScore(obs),
     social_sentiment |-> SocialScore(obs)]

(* OracleEngineV3._calculate_component_scores *)
ComponentScoresV3(obs, t) ==
    LET fng_value == IF obs.fng = NoIndex THEN 50 ELSE obs.fng
    IN [whale_activity |-> WhaleActivity(obs, t).score,
        liquidation_risk |-> 100 - LiquidationScore(obs),
        funding_rate |-> FundingScore(obs),
        exchange_flow |-> ExchangeFlowScore(obs),
        open_interest |-> OpenInterestScore(obs),
        market_sentiment |-> IF fng_value < 25 THEN 80
                             ELSE IF fng_value < 40 THEN 65
                             ELSE IF fng_value > 75 THEN 25
                             ELSE IF fng_value > 60 THEN 40
                             ELSE 50,
        social_sentiment |-> SocialScore(obs),
        momentum_24h |-> IF obs.change24 > 5 THEN 75
                         ELSE IF obs.change24 > 2 THEN 62
                         ELSE IF obs.change24 > -2 THEN 50
                         ELSE IF obs.change24 > -5 THEN 38
                         ELSE 25,
        trend_7d |-> IF obs.change7 > 10 THEN 80
                     ELSE IF obs.change7 > 3 THEN 65
                     ELSE IF obs.change7 > -3 THEN 50
                     ELSE IF obs.change7 > -10 THEN 35
                     ELSE 20]

OnchainNames ==
    {"whale_activity", "liquidation_risk", "funding_rate", "exchange_flow",
     "open_interest"}
SentimentNames == {"market_sentiment", "social_sentiment"}
TechnicalNames == {"momentum_24h", "trend_7d"}

(* analyze_asset of v3: the quant models run on 30 prices or more. *)
QuantAvailable(series) == series.len >= 30

(* OracleEngineV3._calculate_oracle_score.  The category means are sums over
   5, 2 and 2 scores and the category weights 0.40, 0.30, 0.15 and 0.15, so
   a thousand times the final score is the sum below. *)
OracleScoreV3(scores, quant_available, quant) ==
    LET quant_score == IF quant_available THEN quant.quant_score ELSE 50
        final_score == 400 * quant_score
                       + 60 * SumOf(scores, OnchainNames)
                       + 75 * SumOf(scores, SentimentNames)
                       + 75 * SumOf(scores, TechnicalNames)
    IN Clamp(final_score \div 1000)

(* generate_signal of OracleEngine: every factor is in factors, so the sum
   runs over all of FACTOR_WEIGHTS. *)
OracleScoreV2(factors) ==
    WeightedMean(factors, FACTOR_WEIGHTS, DOMAIN FACTOR_WEIGHTS)

(* OracleEngine._calculate_factors: the value label of the factors computed
   from the price data and the index. *)
FactorValuesV2(obs) ==
    [momentum_24h |-> IF obs.change24 > 5 THEN "strong_bullish"
                      ELSE IF obs.change24 > 2 THEN "bullish"
                      ELSE IF obs.change24 > -2 THEN "neutral"
                      ELSE IF obs.change24 > -5 THEN "bearish"
                      ELSE "strong_bearish",
     trend_7d |-> IF obs.change7 > 10 THEN "strong_uptrend"
                  ELSE IF obs.change7 > 3 THEN "uptrend"
                  ELSE IF obs.change7 > -3 THEN "sideways"
                  ELSE IF obs.change7 > -10 THEN "downtrend"
                  ELSE "strong_downtrend",
     volume_flow |-> IF obs.volume_ratio > 15 THEN "very_high"
                     ELSE IF obs.volume_ratio > 8 THEN "high"
                     ELSE IF obs.volume_ratio > 3 THEN "normal"
                     ELSE "low",
     ath_proximity |-> IF obs.ath_change > -10 THEN "near_ath"
                       ELSE IF obs.ath_change > -30 THEN "moderate_discount"
                       ELSE IF obs.ath_change > -50 THEN "significant_discount"
                       ELSE "deep_discount",
     volatility |-> IF obs.range_pct > 10 THEN "very_high"
                    ELSE IF obs.range_pct > 5 THEN "high"
                    ELSE IF obs.range_pct > 2 THEN "moderate"
                    ELSE "low",
     market_sentiment |-> IF obs.fng = NoIndex THEN "unknown"
                          ELSE IF obs.fng < 25 THEN "extreme_fear"
                          ELSE IF obs.fng < 40 THEN "fear"
                          ELSE IF obs.fng < 60 THEN "neutral"
                          ELSE IF obs.fng < 75 THEN "greed"
                          ELSE "extreme_greed"]

(* The inputs of _calculate_factors that may be null in the price data, or
   missing altogether for the index. *)
Inputs ==
    {"price_change_24h", "price_change_7d", "volume_24h", "market_cap",
     "high_24h", "low_24h", "ath_change_percentage", "fng"}

(* What _calculate_factors computes with when the inputs in missing are
   null: price_data.get(name, 0) or 0 makes a null change, volume, high or
   all-time-high distance 0, and or 1 makes a null market cap or low 1.  A
   volume over a market cap of 1 and a high over a low of 1 are far above
   every threshold; a high of 0 gives a negative range.  The liquidation
   provider reads the same range with its own defaults (or current_price),
   which changes the Oracle Score only, not the labels of the factors. *)
WithDefaults(obs, missing) ==
    [change24 |-> IF "price_change_24h" \in missing THEN 0 ELSE obs.change24,
     change7 |-> IF "price_change_7d" \in missing THEN 0 ELSE obs.change7,
     volume_ratio |-> IF "volume_24h" \in missing THEN 0
                      ELSE IF "market_cap" \in missing THEN 1000000
                      ELSE obs.volume_ratio,
     range_pct |-> IF "high_24h" \in missing THEN -100
                   ELSE IF "low_24h" \in missing THEN 1000000
                   ELSE obs.range_pct,
     ath_change |-> IF "ath_change_percentage" \in missing THEN 0
                    ELSE obs.ath_change,
     votes_up |-> obs.votes_up,
     fng |-> IF "fng" \in missing THEN NoIndex ELSE obs.fng]

(* analyze_asset and generate_signal of OracleEngine on price data with
   null fields: the factors, then the score and the signal type. *)
CalculateFactors ==
    /\ oracle.pc = "fetched"
    /\ LET seen == WithDefaults(oracle.obs, oracle.missing)
           scores == FactorsV2(seen, now)
           values == FactorValuesV2(seen)
           oracle_score == OracleScoreV2(scores)
       IN oracle' = [oracle EXCEPT
                        !.pc = "calculated",
                        !.factors = [n \in DOMAIN values |->
                                        [value |-> values[n], score |-> scores[n]]],
                        !.signal = [signal_type |-> ClassifyV2(oracle_score),
                                    oracle_score |-> oracle_score]]
    /\ UNCHANGED <<now, alertVars, signals, scan, schedVars, serviceVars>>

(* CoinGeckoProvider.SYMBOL_MAP *)
SYMBOL_MAP ==
    [BTC |-> "bitcoin", ETH |-> "ethereum", SOL |-> "solana",
     BNB |-> "binancecoin", XRP |-> "ripple", ADA |-> "cardano",
     DOGE |-> "dogecoin", AVAX |-> "avalanche-2", DOT |-> "polkadot",
     MATIC |-> "matic-network", LINK |-> "chainlink", UNI |-> "uniswap",
     PEPE |-> "pepe", SHIB |-> "shiba-inu"]

(* OracleEngine.SUPPORTED_ASSETS and OracleEngineV3.SUPPORTED_ASSETS *)
SUPPORTED_ASSETS(engine) ==
    {"BTC", "ETH", "SOL", "BNB", "XRP", "ADA", "DOGE", "AVAX", "DOT", "MATIC",
     "LINK", "UNI", "PEPE", "SHIB"}
        \cup IF engine = "v3" THEN {"ARB", "OP", "APT", "SUI"} ELSE {}

(* Symbols no engine supports. *)
OtherSymbols == {"XYZ", "LUNA"}
Symbols == SUPPORTED_ASSETS("v3") \cup OtherSymbols

(* The upstream answers with status 200, or fails. *)
Upstream == {"ok", "down"}

(* current_price of the answer: null, or a price in hundredths of a cent. *)
NoCurrentPrice == 0
FetchedPrices == {NoCurrentPrice, 40, 1000000}

(* CoinGeckoProvider.get_price_data: None for a symbol without coin id and
   for a failed request, the price data otherwise. *)
get_price_data(symbol, upstream, price) ==
    IF symbol \notin DOMAIN SYMBOL_MAP THEN "None"
    ELSE IF upstream # "ok" THEN "None"
    ELSE "price_data"

(* generate_signal up to the score: what the caller gets back. *)
Outcome(engine, symbol, upstream, price) ==
    IF symbol \notin SUPPORTED_ASSETS(engine) THEN "None"
    ELSE IF get_price_data(symbol, upstream, price) = "None" THEN "None"
    ELSE IF price = NoCurrentPrice THEN "None"
    ELSE "signal"

(* One call of generate_signal(symbol). *)
GenerateForSymbol ==
    /\ oracle.pc = "called"
    /\ oracle' = [oracle EXCEPT
                     !.pc = "returned",
                     !.outcome = Outcome(oracle.engine, oracle.symbol,
                                         oracle.upstream, oracle.price)]
    /\ UNCHANGED <<now, alertVars, signals, scan, schedVars, serviceVars>>

NoQuant == [models |-> <<>>, quant_score |-> 50]

(* factor_breakdown of the dict OracleEngine.generate_signal returns: score
   and weight of every factor. *)
FactorBreakdown(factors) ==
    [n \in DOMAIN FACTOR_WEIGHTS |->
        [score |-> factors[n], weight |-> FACTOR_WEIGHTS[n]]]

(* components and quant_models.aggregate_score of the dict
   OracleEngineV3._generate_signal_from_score returns: the sub-scores the
   signal carries. *)
Components(scores, quant) ==
    [whale_score |-> scores["whale_activity"],
     technical_score |-> (scores["momentum_24h"] + scores["trend_7d"]) \div 2,
     sentiment_score |-> scores["market_sentiment"],
     liquidation_risk |-> 100 - scores["liquidation_risk"],
     aggregate_score |-> quant.quant_score]

(* One call of generate_signal at time t: what it computed and returned. *)
Run(engine, obs, series, t) ==
    LET factors == IF engine = "v2" THEN FactorsV2(obs, t)
                   ELSE ComponentScoresV3(obs, t)
        quant_available == engine = "v3" /\ QuantAvailable(series)
        quant == IF quant_available THEN run_all_models(series) ELSE NoQuant
        oracle_score == IF engine = "v2" THEN OracleScoreV2(factors)
                        ELSE OracleScoreV3(factors, quant_available, quant)
    IN [factors |-> factors,
        quant |-> quant,
        oracle_score |-> oracle_score,
        signal_type |-> Classify(engine, oracle_score),
        snapshot |-> IF engine = "v2" THEN FactorBreakdown(factors)
                     ELSE Components(factors, quant),
        generated_at |-> t]

MaxRuns == 2

(* generate_signal, whole: analyze_asset, the score and the signal. *)
GenerateSignal ==
    /\ oracle.pc = "observed"
    /\ Len(oracle.runs) < MaxRuns
    /\ oracle' = [oracle EXCEPT
                     !.runs = Append(@, Run(oracle.engine, oracle.obs,
                                            oracle.series, now))]
    /\ UNCHANGED <<now, alertVars, signals, scan, schedVars, serviceVars>>

----------------------------------------------------------------------------
(* Registration *)

(* Email addresses, as sequences of characters in either case. *)
Chars == {"a", "A", "b"}
MaxEmailLen == 2
MaxUsers == 2
Emails == UNION {[1..n -> Chars] : n \in 1..MaxEmailLen}

(* str.lower() *)
LowerChar(c) == IF c = "A" THEN "a" ELSE c
Lower(email) == [i \in DOMAIN email |-> LowerChar(email[i])]

NoReply == [status |-> 0, email |-> <<>>]

(* The query compares the stored email with the email as it was sent. *)
ExistingExact(users, email) == \E u \in users : u.email = email

(* db.query(User).filter(User.email == user_data.email.lower()).first() *)
Existing(users, email) == \E u \in users : u.email = Lower(email)

(* POST /register.  ok is false when hashing the password or the commit
   raises; the unique index on users.email makes the commit of a second row
   with the same email raise.  Nothing is stored unless the commit
   succeeds.  The table holds at most MaxUsers rows. *)
register(email, ok) ==
    /\ Existing(auth.users, email) \/ Cardinality(auth.users) < MaxUsers
    /\ LET row == [email |-> Lower(email)]
       IN IF Existing(auth.users, email)
          THEN auth' = [auth EXCEPT !.reply = [status |-> 400, email |-> email]]
          ELSE IF ~ok \/ (\E u \in auth.users : u.email = row.email)
          THEN auth' = [auth EXCEPT !.reply = [status |-> 500, email |-> email]]
          ELSE auth' = [users |-> auth.users \cup {row},
                        reply |-> [status |-> 201, email |-> email]]
    /\ UNCHANGED <<now, alertVars, signalVars, schedVars, whale_cache>>

----------------------------------------------------------------------------
(* The cache of the whale intelligence service *)

CACHE_TTL == 120
MaxWrites == 2
MaxCacheTime == 3

CacheKeys == {"moby_trending", "exchange_flows_v2"}
CacheData == {"d1", "d2"}

(* A key that is not in _whale_cache, and the None of get_cached. *)
NoEntry == [data |-> "None", timestamp |-> NoTime]
NoGet == [key |-> "none", value |-> "None", at |-> NoTime, seen |-> 0]

(* An entry is still returned when it is exactly CACHE_TTL old. *)
get_cached_inclusive(cache, key, t) ==
    IF cache[key] # NoEntry /\ (t - cache[key].timestamp) * 60 <= CACHE_TTL
    THEN cache[key].data
    ELSE "None"

(* get_cached at time t, in minutes. *)
get_cached(cache, key, t) ==
    IF cache[key] # NoEntry /\ (t - cache[key].timestamp) * 60 < CACHE_TTL
    THEN cache[key].data
    ELSE "None"

(* set_cached at time t. *)
set_cached(cache, key, data, t) ==
    [cache EXCEPT ![key] = [data |-> data, timestamp |-> t]]

(* log is the list of the calls of set_cached and got the last call of
   get_cached with what it returned; the code keeps neither. *)
SetCached(key, data) ==
    /\ Len(whale_cache.log) < MaxWrites
    /\ whale_cache' = [whale_cache EXCEPT
                          !.entries = set_cached(@, key, data, now),
                          !.log = Append(@, [key |-> key, data |-> data, at |-> now])]
    /\ UNCHANGED <<now, alertVars, signalVars, schedVars, auth>>

GetCached(key) ==
    /\ whale_cache' = [whale_cache EXCEPT
                          !.got = [key |-> key,
                                   value |-> get_cached(whale_cache.entries, key, now),
                                   at |-> now,
                                   seen |-> Len(whale_cache.log)]]
    /\ UNCHANGED <<now, alertVars, signalVars, schedVars, auth>>

(* A minute passes. *)
CacheTick ==
    /\ now < MaxCacheTime
    /\ now' = now + 1
    /\ UNCHANGED <<alertVars, signalVars, schedVars, serviceVars>>

InitServices ==
    /\ auth = [users |-> {}, reply |-> NoReply]
    /\ whale_cache = [entries |-> [k \in CacheKeys |-> NoEntry],
                      log |-> <<>>, got |-> NoGet]

----------------------------------------------------------------------------
(* Initial states: the database as the process finds it, the scheduler as
   Scheduler.__init__ and setup_scheduler leave it. *)

InitRules ==
    rules \in [RuleIds -> {NewRule(c, t, k, h) : c \in Conditions, t \in Thresholds,
                                                k \in Cooldowns, h \in BOOLEAN}]

InitAlerts ==
    /\ history = <<>>
    /\ last_value = [r \in RuleIds |-> NoValue]
    /\ eval = [e \in Evals |-> IdleEval]

InitSched ==
    /\ tasks = [n \in TaskNames |-> [last_run |-> NoTime]]
    /\ pending = {}
    /\ wake_at = 0
    /\ started = [n \in TaskNames |-> <<>>]

OneSignal == [s \in SignalIds |-> NewSignal("buy", 100, 110, 97, 31)]

Init ==
    /\ now = 0
    /\ InitRules
    /\ InitAlerts
    /\ signals = OneSignal
    /\ InitScan
    /\ InitOracle
    /\ InitSched
    /\ InitServices

Next ==
    \/ \E e \in Evals : HourlyScanStart(e)
    \/ \E e \in Evals : ScanPortfolioStart(e)
    \/ \E e \in Evals : FetchFailed(e)
    \/ \E e \in Evals, v \in Values : CheckAndTrigger(e, v)
    \/ \E e \in Evals, ok \in BOOLEAN : NotifyResume(e, ok)
    \/ \E e \in Evals, r \in RuleIds : test_alert_rule(e, r)
    \/ \E r \in RuleIds, u \in Updates : update_alert_rule(r, u)
    \/ \E d \in TickSteps : Tick(d)

(* Alert rules under rule evaluations, updates and test notifications. *)
Spec == Init /\ [][Next]_vars

(* The scenario of one rule "above 70" with a cooldown of 60 minutes, which
   nobody edits. *)
ScenarioInit ==
    /\ now = 0
    /\ rules \in [RuleIds -> {NewRule("above", 70, 60, h) : h \in BOOLEAN}]
    /\ InitAlerts
    /\ signals = OneSignal
    /\ InitScan
    /\ InitOracle
    /\ InitSched
    /\ InitServices

ScenarioNext ==
    \/ \E e \in Evals : HourlyScanStart(e)
    \/ \E e \in Evals : ScanPortfolioStart(e)
    \/ \E e \in Evals : FetchFailed(e)
    \/ \E e \in Evals, v \in Values : CheckAndTrigger(e, v)
    \/ \E e \in Evals, ok \in BOOLEAN : NotifyResume(e, ok)
    \/ \E e \in Evals, r \in RuleIds : test_alert_rule(e, r)
    \/ \E d \in TickSteps : Tick(d)

ScenarioSpec == ScenarioInit /\ [][ScenarioNext]_vars

(* No rule is active: the database of a deployment whose rules are paused. *)
PausedRules ==
    rules \in [RuleIds -> {[NewRule(c, t, k, h) EXCEPT !.is_active = FALSE] :
                              c \in {"above"}, t \in Thresholds,
                              k \in {60}, h \in {FALSE}}]

(* The alert engine with one coroutine at a time: no two evaluations overlap. *)
SeqNext ==
    \/ HourlyScanStart("a")
    \/ ScanPortfolioStart("a")
    \/ FetchFailed("a")
    \/ \E v \in Values : CheckAndTrigger("a", v)
    \/ \E ok \in BOOLEAN : NotifyResume("a", ok)
    \/ \E r \in RuleIds : test_alert_rule("a", r)
    \/ \E r \in RuleIds, u \in Updates : update_alert_rule(r, u)
    \/ \E d \in TickSteps : Tick(d)

SeqSpec == Init /\ [][SeqNext]_vars

(* Signals under the admin operations. *)
SignalInit ==
    /\ now = 0
    /\ PausedRules
    /\ InitAlerts
    /\ signals \in [SignalIds -> StoredSignals]
    /\ InitScan
    /\ InitOracle
    /\ InitSched
    /\ InitServices

SignalNext ==
    \/ \E id \in SignalIds, st \in valid_statuses, p \in OutcomePrices :
          update_signal_status(id, st, p)
    \/ trigger_cleanup
    \/ \E d \in TickSteps : Tick(d)

SignalSpec == SignalInit /\ [][SignalNext]_vars

(* Signals under the scheduler alone, with no manual action. *)
SchedNext ==
    \/ SchedulerLoop
    \/ \E n \in TaskNames, ok \in BOOLEAN : RunTask(n, ok)
    \/ \E d \in TickSteps : Tick(d)

SchedSpec == SignalInit /\ [][SchedNext]_vars

(* The market scanner alone. *)
ScanNext ==
    \/ ScanStart
    \/ \E o \in FetchOutcomes, ok \in BOOLEAN : ScanStep(o, ok)

ScanSpec == SignalInit /\ [][ScanNext]_vars

(* generate_signal of either engine, from the score it computed and the price
   it fetched. *)
ScoredInit ==
    /\ now = 0
    /\ PausedRules
    /\ InitAlerts
    /\ signals = OneSignal
    /\ InitScan
    /\ InitSched
    /\ InitServices
    /\ oracle \in {[pc |-> "scored", engine |-> e, score |-> s, price |-> p,
                    signal |-> NoSignal] :
                      e \in Engines, s \in Scores, p \in Prices}

ScoredNext == GenerateFromScore

ScoredSpec == ScoredInit /\ [][ScoredNext]_vars

(* generate_signal of either engine, called again and again while the market
   observation, the sentiment index and the historical series stay the same
   and the clock moves. *)
ObservedInit ==
    /\ now = 0
    /\ PausedRules
    /\ InitAlerts
    /\ signals = OneSignal
    /\ InitScan
    /\ InitSched
    /\ InitServices
    /\ oracle \in {[pc |-> "observed", engine |-> e, obs |-> o, series |-> s,
                    runs |-> <<>>] :
                      e \in Engines, o \in Observations, s \in Series}

ObservedNext ==
    \/ GenerateSignal
    \/ \E d \in TickSteps : Tick(d)

OracleSpec == ObservedInit /\ [][ObservedNext]_vars

(* The quant models called directly on series of every length around their
   minimum lengths, regular and degenerate. *)
SeriesLengths == {0, 4, 9, 10, 12, 13, 14, 15, 18, 19, 20, 29, 30}
SeriesKinds == {"regular", "zero_price", "zero_volume"}

(* A constant series has no return, no gain and no loss. *)
QuantInputs ==
    {SeriesOf(n, IF w THEN n ELSE 0, k, s, r, g) :
        n \in SeriesLengths, w \in BOOLEAN, k \in SeriesKinds,
        s \in Strengths, r \in RsiInputs, g \in Regimes}
    \cup {SeriesOf(n, IF w THEN n ELSE 0, "constant", 0, <<0, 0, 0>>, "flat") :
             n \in SeriesLengths, w \in BOOLEAN}

QuantInit ==
    /\ now = 0
    /\ PausedRules
    /\ InitAlerts
    /\ signals = OneSignal
    /\ InitScan
    /\ InitSched
    /\ InitServices
    /\ oracle \in {[pc |-> "series", series |-> x, result |-> NoQuant] :
                      x \in QuantInputs}

QuantNext == RunModels

QuantSpec == QuantInit /\ [][QuantNext]_vars

(* generate_signal of OracleEngine on price data of which some fields are
   null. *)
PartialObservations ==
    [change24 : {-6, 6}, change7 : {-11, 11}, volume_ratio : {2, 16},
     range_pct : {1, 12}, ath_change : {-5, -60}, votes_up : {20},
     fng : {10, 90}]

PartialInit ==
    /\ now = 0
    /\ PausedRules
    /\ InitAlerts
    /\ signals = OneSignal
    /\ InitScan
    /\ InitSched
    /\ InitServices
    /\ oracle \in {[pc |-> "fetched", obs |-> o, missing |-> m,
                    factors |-> <<>>, signal |-> NoSignal] :
                      o \in PartialObservations, m \in SUBSET Inputs}

PartialNext == CalculateFactors

PartialSpec == PartialInit /\ [][PartialNext]_vars

(* generate_signal called for any symbol, with the upstream up or down. *)
CalledInit ==
    /\ now = 0
    /\ PausedRules
    /\ InitAlerts
    /\ signals = OneSignal
    /\ InitScan
    /\ InitSched
    /\ InitServices
    /\ oracle \in {[pc |-> "called", engine |-> e, symbol |-> y,
                    upstream |-> u, price |-> p, outcome |-> "pending"] :
                      e \in Engines, y \in Symbols, u \in Upstream,
                      p \in FetchedPrices}

CalledNext == GenerateForSymbol

CalledSpec == CalledInit /\ [][CalledNext]_vars

(* The services that stand apart from the signals. *)
ServiceInit ==
    /\ now = 0
    /\ PausedRules
    /\ InitAlerts
    /\ signals = OneSignal
    /\ InitScan
    /\ InitOracle
    /\ InitSched
    /\ InitServices

(* Registration alone. *)
AuthNext == \E email \in Emails, ok \in BOOLEAN : register(email, ok)

AuthSpec == ServiceInit /\ [][AuthNext]_vars

(* The cache alone. *)
CacheNext ==
    \/ \E k \in CacheKeys, d \in CacheData : SetCached(k, d)
    \/ \E k \in CacheKeys : GetCached(k)
    \/ CacheTick

CacheSpec == ServiceInit /\ [][CacheNext]_vars

----------------------------------------------------------------------------
(* Properties of the alert engine *)

(* The rows a step adds to the alert history for rule r. *)
NewRows(r) ==
    {i \in (Len(history) + 1)..Len(history') : history'[i].rule_id = r}

NewAlerts(r) == {i \in NewRows(r) : ~history'[i].test}

(* Time t is inside the cooldown window of the rule: before T + C. *)
InWindow(rule, t) ==
    /\ rule.last_triggered # NoTime
    /\ t < rule.last_triggered + rule.cooldown_minutes

(* C1: no AlertHistory row of a rule is created before T + C, T being the
   rule's last_triggered and C its cooldown_minutes when the row is created;
   under evaluations, rule updates and test notifications. *)
C1_NoRowBeforeCooldownEnd ==
    [][\A r \in RuleIds : \A i \in NewRows(r) :
          \/ rules[r].last_triggered = NoTime
          \/ history'[i].triggered_at
                 >= rules[r].last_triggered + rules[r].cooldown_minutes]_vars

(* The rule of the scenario, last fired at time t0 on the value 75. *)
FiredAt(r, t0) ==
    /\ rules[r].is_active
    /\ rules[r].condition = "above"
    /\ rules[r].threshold = 70
    /\ rules[r].cooldown_minutes = 60
    /\ rules[r].last_triggered = t0
    /\ \E i \in 1..Len(history) :
          /\ history[i].rule_id = r /\ ~history[i].test
          /\ history[i].triggered_at = t0 /\ history[i].trigger_value = 75

(* C2: a rule "above 70" with a cooldown of 60 minutes that fired at T0 on 75
   does not fire on a breaching value at T0 + 30, and that evaluation leaves
   last_triggered and trigger_count as they were; it fires on a breaching
   value at T0 + 61. *)
C2_CooldownScenario ==
    [][\A e \in Evals, v \in Values, r \in RuleIds :
          (CheckAndTrigger(e, v) /\ v > 70) =>
             /\ FiredAt(r, now - 30) =>
                   /\ rules'[r] = rules[r]
                   /\ history' = history
             /\ FiredAt(r, now - 61) =>
                   /\ Cardinality(NewAlerts(r)) = 1
                   /\ rules'[r].last_triggered = now
                   /\ rules'[r].trigger_count = rules[r].trigger_count + 1]_vars

(* C3: a crosses_above rule fires only when a value was observed for the rule
   before and that previous value was at or below the threshold (crosses_below:
   at or above it); last_value is the value the rule's condition was last
   compared with. *)
C3_CrossingNeedsOtherSide ==
    [][\A r \in RuleIds :
          NewAlerts(r) # {} =>
             /\ rules[r].condition = "crosses_above"
                   => last_value[r] # NoValue /\ last_value[r] <= rules[r].threshold
             /\ rules[r].condition = "crosses_below"
                   => last_value[r] # NoValue /\ last_value[r] >= rules[r].threshold]_vars

(* C9: an evaluation of an active rule whose condition is met outside its
   cooldown fires it; a fire adds exactly one row for the rule, sets its
   last_triggered to the evaluation time and adds exactly one to its
   trigger_count; and no step ever lowers a trigger_count. *)
C9_FireCountsOnce ==
    [][\A r \in RuleIds :
          /\ \A e \in Evals, v \in Values :
                (/\ CheckAndTrigger(e, v)
                 /\ rules[r].is_active
                 /\ ConditionMet(rules[r], v)
                 /\ ~InWindow(rules[r], now)) => NewAlerts(r) # {}
          /\ NewAlerts(r) # {} =>
                /\ Cardinality(NewAlerts(r)) = 1
                /\ rules'[r].last_triggered = now
                /\ rules'[r].trigger_count = rules[r].trigger_count + 1
          /\ rules'[r].trigger_count >= rules[r].trigger_count]_vars

(* C10: the read of last_triggered and the write of last_triggered and
   trigger_count are atomic: an evaluation that runs while the committed
   rule is inside its cooldown window, another evaluation having fired it,
   does not fire it again. *)
C10_OneFirePerWindow ==
    [][\A e \in Evals, v \in Values, r \in RuleIds :
          (CheckAndTrigger(e, v) /\ InWindow(rules[r], now)) =>
             /\ NewAlerts(r) = {}
             /\ rules'[r] = rules[r]]_vars

(* C11: an AlertHistory row is never changed after it was created: every step
   keeps every row the history already holds, field by field, and the history
   only grows at its end. *)
C11_HistoryRowsFrozen ==
    [][/\ Len(history') >= Len(history)
       /\ \A i \in 1..Len(history) : history'[i] = history[i]]_vars

----------------------------------------------------------------------------
(* Properties of the market scanner *)

Count(seq, a) == Cardinality({i \in 1..Len(seq) : seq[i] = a})

(* The assets whose processing failed: generate_signal gave nothing, or an
   exception was caught while the asset was processed. *)
FailedAssets == {a \in Assets : scan.outcome[a].kind = "none" \/ a \in scan.caught}

(* C12: a scan attempts every supported asset exactly once whatever
   generate_signal raises or returns, and its summary counts every asset in
   exactly one of saved, skipped and errors: errors is the number of assets
   whose processing failed and saved + skipped + errors = total_scanned. *)
C12_ScanAccounting ==
    /\ scan.pc \in {"done", "aborted"} => \A a \in Assets : scan.attempts[a] = 1
    /\ scan.pc = "done" =>
          /\ \A a \in Assets :
                Count(scan.saved, a) + Count(scan.skipped, a)
                    + Count(scan.errors, a) = 1
          /\ scan.result.errors = Cardinality(FailedAssets)
          /\ scan.result.saved + scan.result.skipped + scan.result.errors
                = scan.result.total_scanned

(* A finished scan in which generate_signal raised for one asset, returned
   nothing for another and a signal for a third. *)
C12_Witness ==
    /\ scan.pc = "done"
    /\ \E a, b, c \in Assets :
          /\ scan.outcome[a].kind = "raise"
          /\ scan.outcome[b].kind = "none"
          /\ scan.outcome[c].kind = "signal"
    /\ scan.result.errors = 2
    /\ scan.result.skipped = NumAssets - 2

(* C13: after a scan, every asset whose signal has a score >= 55 or <= 45 has
   a new active Signal row and is counted as saved, and every asset with a
   score from 46 to 54 has no row and is counted as skipped. *)
C13_ActionablePersisted ==
    scan.pc = "done" =>
       \A a \in Assets : scan.outcome[a].kind = "signal" =>
          LET x == scan.outcome[a].score
              rows == {row \in scan.persisted : row.asset = a}
          IN /\ (x >= 55 \/ x <= 45) =>
                   /\ Count(scan.saved, a) = 1
                   /\ \E row \in rows : row.status = "active"
             /\ (x >= 46 /\ x <= 54) =>
                   /\ Count(scan.skipped, a) = 1
                   /\ rows = {}

(* C28: every score the scanner takes as actionable (>= 55 or <= 45), and so
   goes on to store, is one that OracleEngine.generate_signal classified as
   a buy or a sell, never as hold. *)
C28_ActionableIsDirectional ==
    \A a \in Assets :
        (scan.outcome[a].kind = "signal" /\ Actionable(scan.outcome[a].score))
            => ClassifyV2(scan.outcome[a].score) # "hold"

(* C14: a database error while the Signals of a scan are persisted never
   aborts the scan: scan_and_save always ends with its summary. *)
C14_PersistFailureIsolated ==
    scan.pc # "aborted"

----------------------------------------------------------------------------
(* Properties of the scheduler *)

(* C15: two consecutive starts of a task are at least its interval apart. *)
C15_StartsSpacedByInterval ==
    \A n \in TaskNames : \A i \in 1..(Len(started[n]) - 1) :
       (started[n][i + 1] - started[n][i]) * 60 >= Interval(n)

----------------------------------------------------------------------------
(* Properties of the signal lifecycle *)

OutcomeUnset(sig) ==
    /\ sig.outcome_price = NoPrice
    /\ sig.outcome_pnl_percent = NoPnl
    /\ sig.outcome_at = NoTime

OutcomeSet(sig) ==
    /\ sig.outcome_price # NoPrice
    /\ sig.outcome_pnl_percent # NoPnl
    /\ sig.outcome_at # NoTime

(* Fractions a and b are the same number. *)
SameFraction(a, b) == a[1] * b[2] = b[1] * a[2]

(* C4: once the status of a Signal is hit_target, hit_stop, expired or
   cancelled it never changes again. *)
C4_TerminalIsFinal ==
    [][\A s \in SignalIds :
          signals[s].status \in Terminal
              => signals'[s].status = signals[s].status]_vars

(* C5: outcome_price, outcome_pnl_percent and outcome_at are all unset while
   a Signal is active, all set by the transition out of active, and never
   changed afterwards. *)
C5_OutcomeSetOnce ==
    [][\A s \in SignalIds :
          /\ signals'[s].status = "active" => OutcomeUnset(signals'[s])
          /\ signals'[s].status # "active" => OutcomeSet(signals'[s])
          /\ signals[s].status # "active" =>
                /\ signals'[s].outcome_price = signals[s].outcome_price
                /\ signals'[s].outcome_pnl_percent = signals[s].outcome_pnl_percent
                /\ signals'[s].outcome_at = signals[s].outcome_at]_vars

(* C6: a Signal closed at price P has outcome_pnl_percent (P - E) / E * 100 when
   it is buy-type and (E - P) / E * 100 when it is sell-type, so a buy-type
   signal closed above its entry price, and a sell-type one closed below it,
   has a positive PnL. *)
C6_PnlDirectionAware ==
    \A s \in SignalIds :
       LET sig == signals[s]
           E == sig.entry_price
           P == sig.outcome_price
       IN (sig.status \in Terminal /\ sig.outcome_pnl_percent # NoPnl) =>
             /\ sig.signal_type \in BuyTypes =>
                   /\ SameFraction(sig.outcome_pnl_percent, <<(P - E) * 100, E>>)
                   /\ P > E => sig.outcome_pnl_percent[1] > 0
             /\ sig.signal_type \in SellTypes =>
                   /\ SameFraction(sig.outcome_pnl_percent, <<(E - P) * 100, E>>)
                   /\ P < E => sig.outcome_pnl_percent[1] > 0

(* C7: a Signal is hit_target only with a recorded outcome price that reached
   its target (at or above it for a buy-type signal, at or below it for a
   sell-type one), and hit_stop only with one that reached its stop_loss. *)
C7_HitNeedsPrice ==
    \A s \in SignalIds :
       LET sig == signals[s]
           P == sig.outcome_price
       IN /\ sig.status = "hit_target" =>
                /\ P # NoPrice
                /\ sig.signal_type \in BuyTypes => P >= sig.target_price
                /\ sig.signal_type \in SellTypes => P <= sig.target_price
          /\ sig.status = "hit_stop" =>
                /\ P # NoPrice
                /\ sig.signal_type \in BuyTypes => P <= sig.stop_loss
                /\ sig.signal_type \in SellTypes => P >= sig.stop_loss

(* C8: a Signal still active after its expires_at is moved to expired by the
   periodic sweep: once every periodic task has completed a run later than
   expires_at, the Signal is no longer active. *)
C8_SweptAfterExpiry ==
    \A s \in SignalIds :
       (\A n \in TaskNames : tasks[n].last_run > signals[s].expires_at)
           => signals[s].status # "active"

----------------------------------------------------------------------------
(* Properties of the Oracle engines *)

(* C16: every signal generate_signal returns for a positive price has
   entry_price > 0, and with the returned, rounded prices
   stop_loss < entry_price < target_price when it is buy-type and
   target_price < entry_price < stop_loss when it is sell-type. *)
C16_PricesOrdered ==
    oracle.pc = "signalled" =>
        LET s == oracle.signal
        IN /\ s.entry_price > 0
           /\ s.signal_type \in V3BuyTypes =>
                 s.stop_loss < s.entry_price /\ s.entry_price < s.target_price
           /\ s.signal_type \in V3SellTypes =>
                 s.target_price < s.entry_price /\ s.entry_price < s.stop_loss

(* The bearish-to-bullish position of a signal type. *)
Rank(type) ==
    CASE type = "strong_sell" -> 1
      [] type = "sell" -> 2
      [] type = "lean_sell" -> 3
      [] type = "hold" -> 4
      [] type = "lean_buy" -> 5
      [] type = "buy" -> 6
      [] type = "strong_buy" -> 7
      [] OTHER -> 0

(* C17: the v3 classification gives every score of 0..100 one of the seven
   signal types; every type is given to some score; the scores of one type
   are contiguous; and a higher score never gets a more bearish type. *)
C17_V3TiersPartition ==
    (oracle.pc = "signalled" /\ oracle.engine = "v3") =>
        LET t == oracle.signal.signal_type
        IN /\ t \in V3Types
           /\ \A u \in V3Types : \E x \in Scores : ClassifyV3(x) = u
           /\ \A x \in Scores : x <= oracle.score => Rank(ClassifyV3(x)) <= Rank(t)
           /\ \A x \in Scores : x >= oracle.score => Rank(ClassifyV3(x)) >= Rank(t)
           /\ \A x, y \in Scores :
                 (x <= oracle.score /\ oracle.score <= y
                    /\ ClassifyV3(x) = ClassifyV3(y)) => ClassifyV3(x) = t

(* C29: the label of the summary of a v3 signal agrees with its
   signal_type: STRONG BUY or STRONG SELL exactly when the type is strong_buy
   or strong_sell, HOLD exactly when it is hold, and a buy label only with a
   buy type, a sell label only with a sell type. *)
C29_SummaryMatchesType ==
    (oracle.pc = "signalled" /\ oracle.engine = "v3") =>
        LET t == oracle.signal.signal_type
            l == oracle.signal.summary
        IN /\ (l = "STRONG BUY") <=> (t = "strong_buy")
           /\ (l = "STRONG SELL") <=> (t = "strong_sell")
           /\ (l = "HOLD") <=> (t = "hold")
           /\ (l \in {"STRONG BUY", "BUY"}) <=> (t \in V3BuyTypes)
           /\ (l \in {"STRONG SELL", "SELL"}) <=> (t \in V3SellTypes)

(* A v3 signal of the buy tier was generated from a score inside the tier. *)
C17_Witness ==
    /\ oracle.pc = "signalled"
    /\ oracle.engine = "v3"
    /\ oracle.score = 70
    /\ oracle.signal.signal_type = "buy"

(* The Oracle Score as the weighted mean of the sub-scores that are
   available: without the Fear & Greed index market_sentiment is left out
   (of the factors in v2, of the sentiment category in v3), and without the
   quant models the quant category is left out, weight included. *)
AvailableMean(engine, obs, series, run) ==
    LET fng_available == obs.fng # NoIndex
        f == run.factors
    IN IF engine = "v2"
       THEN WeightedMean(f, FACTOR_WEIGHTS,
                         IF fng_available THEN DOMAIN FACTOR_WEIGHTS
                         ELSE DOMAIN FACTOR_WEIGHTS \ {"market_sentiment"})
       ELSE LET quant_available == QuantAvailable(series)
                num == (IF quant_available THEN 400 * run.quant.quant_score ELSE 0)
                       + 60 * SumOf(f, OnchainNames)
                       + (IF fng_available THEN 75 * SumOf(f, SentimentNames)
                          ELSE 150 * f["social_sentiment"])
                       + 75 * SumOf(f, TechnicalNames)
                den == (IF quant_available THEN 400 ELSE 0) + 600
            IN num \div den

(* C18: the Oracle Score a run returns is the weighted mean of the available
   sub-scores only; an unavailable sub-score (the quant aggregate on fewer
   than 30 prices, the sentiment index when its provider failed) is left out
   of numerator and denominator instead of counting as a neutral 50. *)
C18_UnavailableLeftOut ==
    oracle.pc = "observed" =>
        \A i \in 1..Len(oracle.runs) :
            oracle.runs[i].oracle_score =
                AvailableMean(oracle.engine, oracle.obs, oracle.series,
                              oracle.runs[i])

InRange(x) == x \in 0..100

(* C19: every factor score, every quant model score, the quant aggregate and
   the final Oracle Score of a run lie within 0..100. *)
C19_ScoresInRange ==
    oracle.pc = "observed" =>
        \A i \in 1..Len(oracle.runs) :
            LET run == oracle.runs[i]
            IN /\ \A n \in DOMAIN run.factors : InRange(run.factors[n])
               /\ \A m \in DOMAIN run.quant.models : InRange(run.quant.models[m])
               /\ InRange(run.quant.quant_score)
               /\ InRange(run.oracle_score)

(* A v3 run on a series whose TSMOM signal is three volatilities strong: the
   raw score 125 was cut to 100. *)
C19_Witness ==
    /\ oracle.pc = "observed"
    /\ oracle.engine = "v3"
    /\ oracle.series.strength = 300
    /\ Len(oracle.runs) >= 1
    /\ oracle.runs[1].quant.models["tsmom"] = 100

(* C20: two runs of generate_signal on the same observation, sentiment index
   and historical series return the same oracle_score and signal_type. *)
C20_RunsAgree ==
    oracle.pc = "observed" =>
        \A i, j \in 1..Len(oracle.runs) :
            /\ oracle.runs[i].oracle_score = oracle.runs[j].oracle_score
            /\ oracle.runs[i].signal_type = oracle.runs[j].signal_type

(* Two runs at different times on an observation with whale accumulation. *)
C20_Witness ==
    /\ oracle.pc = "observed"
    /\ Len(oracle.runs) = 2
    /\ oracle.runs[1].generated_at < oracle.runs[2].generated_at
    /\ oracle.runs[1].factors["whale_activity"] = 85

(* The aggregate recomputed from the sub-scores a returned signal carries:
   the weighted mean of factor_breakdown for v2; for v3 the category
   weighting of _calculate_oracle_score over the components, a score the
   signal does not carry counting 50 as scores.get(name, 50) does. *)
Replay(engine, snapshot) ==
    IF engine = "v2"
    THEN WeightedMean([n \in DOMAIN snapshot |-> snapshot[n].score],
                      [n \in DOMAIN snapshot |-> snapshot[n].weight],
                      DOMAIN snapshot)
    ELSE OracleScoreV3(
             [whale_activity |-> snapshot.whale_score,
              liquidation_risk |-> 100 - snapshot.liquidation_risk,
              funding_rate |-> 50, exchange_flow |-> 50, open_interest |-> 50,
              market_sentiment |-> snapshot.sentiment_score,
              social_sentiment |-> 50,
              momentum_24h |-> snapshot.technical_score,
              trend_7d |-> snapshot.technical_score],
             TRUE, [quant_score |-> snapshot.aggregate_score])

(* C21: the weighted aggregate recomputed from the factor and score snapshot
   a signal carries is exactly the signal's oracle_score. *)
C21_SnapshotReplays ==
    oracle.pc = "observed" =>
        \A i \in 1..Len(oracle.runs) :
            Replay(oracle.engine, oracle.runs[i].snapshot)
                = oracle.runs[i].oracle_score

----------------------------------------------------------------------------
(* Properties of the quant models *)

NeutralSignals == {"0", "neutral", "absent"}

(* C22: a quant model called on a series shorter than its minimum length
   returns score 50 with its neutral or absent signal and does not raise;
   bollinger_zscore on fewer than 5 prices returns score 50 and signal
   neutral, and run_all_models on such a series returns quant_score 50 with
   signal HOLD. *)
C22_ShortSeriesNeutral ==
    oracle.pc = "ran" =>
        /\ \A m \in DOMAIN model_weights :
              oracle.series.len < MinLength[m] =>
                  /\ ~oracle.result.each[m].raised
                  /\ oracle.result.each[m].score = 50
                  /\ oracle.result.each[m].signal \in NeutralSignals
        /\ oracle.series.len < 5 =>
              /\ oracle.result.each["bollinger"].score = 50
              /\ oracle.result.each["bollinger"].signal = "neutral"
              /\ ~oracle.result.raised
              /\ oracle.result.quant_score = 50
              /\ oracle.result.signal = "HOLD"

(* All the models and run_all_models ran on a series of four prices taken
   from a rising market. *)
C22_Witness ==
    /\ oracle.pc = "ran"
    /\ oracle.series.len = 4
    /\ oracle.series.kind = "regular"
    /\ oracle.series.regime = "bull"
    /\ oracle.result.each["bollinger"].signal = "neutral"
    /\ oracle.result.quant_score = 50

(* The models a degenerate series of sufficient length affects. *)
Affected(kind) ==
    IF kind = "zero_price" THEN DividesByPrice
    ELSE IF kind = "constant"
    THEN {"tsmom", "rsi", "bollinger", "ou_process", "sharpe", "sortino", "adx"}
    ELSE IF kind = "zero_volume" THEN VolumeModelNames
    ELSE {}

(* C23: on a series of sufficient length with a zero price, a constant
   price or volumes summing to zero, no model and not run_all_models raises,
   and every affected model returns score 50. *)
C23_DegenerateNeutral ==
    (oracle.pc = "ran" /\ oracle.series.len >= 30 /\ oracle.series.vol_len >= 30) =>
        /\ ~oracle.result.raised
        /\ \A m \in Affected(oracle.series.kind) :
              /\ ~oracle.result.each[m].raised
              /\ oracle.result.each[m].score = 50

----------------------------------------------------------------------------
(* Properties of the factors *)

(* The inputs each factor is computed from. *)
InputsOf(factor) ==
    CASE factor = "momentum_24h" -> {"price_change_24h"}
      [] factor = "trend_7d" -> {"price_change_7d"}
      [] factor = "volume_flow" -> {"volume_24h", "market_cap"}
      [] factor = "volatility" -> {"high_24h", "low_24h"}
      [] factor = "ath_proximity" -> {"ath_change_percentage"}
      [] factor = "market_sentiment" -> {"fng"}

(* C24: a factor of which an input is missing from the observation gets
   score 50 and the label unknown, and the signal is still generated. *)
C24_MissingIsUnknown ==
    oracle.pc = "calculated" =>
        /\ oracle.signal # NoSignal
        /\ \A f \in DOMAIN oracle.factors :
              InputsOf(f) \cap oracle.missing # {} =>
                  /\ oracle.factors[f].score = 50
                  /\ oracle.factors[f].value = "unknown"

----------------------------------------------------------------------------
(* Properties of the symbols *)

(* C25: generate_signal for a symbol outside SUPPORTED_ASSETS returns no
   signal, and what it returns differs from what the caller gets for a
   supported symbol whose upstream data is unavailable. *)
C25_NotFoundIsDistinct ==
    (oracle.pc = "returned"
        /\ oracle.symbol \notin SUPPORTED_ASSETS(oracle.engine)) =>
        /\ oracle.outcome # "signal"
        /\ \A y \in SUPPORTED_ASSETS(oracle.engine) :
              oracle.outcome # Outcome(oracle.engine, y, "down", oracle.price)

(* C30: every symbol of OracleEngineV3.SUPPORTED_ASSETS has an entry in
   SYMBOL_MAP, and generate_signal for it returns a signal when the upstream
   answers with a positive price. *)
C30_SupportedResolves ==
    (oracle.pc = "returned" /\ oracle.engine = "v3"
        /\ oracle.symbol \in SUPPORTED_ASSETS("v3")
        /\ oracle.upstream = "ok" /\ oracle.price > 0) =>
        /\ oracle.symbol \in DOMAIN SYMBOL_MAP
        /\ oracle.outcome = "signal"

----------------------------------------------------------------------------
(* Properties of the cache and of registration *)

(* The last of the first n calls of set_cached for the key, 0 if none. *)
LatestWrite(key, n) ==
    LET ws == {i \in 1..n : whale_cache.log[i].key = key}
    IN IF ws = {} THEN 0 ELSE CHOOSE i \in ws : \A j \in ws : j <= i

(* C26: get_cached(key) returns a value only if the key was set and its
   latest set_cached happened strictly less than 120 seconds before; it then
   returns the value of that latest write, and nothing otherwise. *)
C26_FreshLatestWrite ==
    whale_cache.got # NoGet =>
        LET g == whale_cache.got
            w == LatestWrite(g.key, g.seen)
        IN IF w # 0 /\ (g.at - whale_cache.log[w].at) * 60 < 120
           THEN g.value = whale_cache.log[w].data
           ELSE g.value = "None"

(* A key was written twice with different data, and a minute after the
   second write get_cached returned the second. *)
C26_Witness ==
    /\ Len(whale_cache.log) = 2
    /\ whale_cache.log[1].key = whale_cache.log[2].key
    /\ whale_cache.log[1].data # whale_cache.log[2].data
    /\ whale_cache.got.key = whale_cache.log[2].key
    /\ whale_cache.got.seen = 2
    /\ whale_cache.got.at = whale_cache.log[2].at + 1
    /\ whale_cache.got.value = whale_cache.log[2].data

(* An email is registered when a user has it, whatever the case. *)
Registered(users, email) == \E u \in users : Lower(u.email) = Lower(email)

(* C27: no two users have the same lower-cased email, and a register call
   whose email is already registered, compared case-insensitively, is
   rejected with status 400 and leaves the users unchanged. *)
C27_EmailsUnique ==
    /\ [](\A u, v \in auth.users : Lower(u.email) = Lower(v.email) => u = v)
    /\ [][Registered(auth.users, auth'.reply.email) =>
             (auth'.reply.status = 400 /\ auth'.users = auth.users)]_auth

(* An address that differs from a registered one in case only was rejected. *)
C27_Witness ==
    /\ auth.reply.status = 400
    /\ auth.reply.email # Lower(auth.reply.email)
    /\ \E u \in auth.users : u.email = Lower(auth.reply.email)

====
